---- MODULE Spec2Model ----
(***************************************************************************)
(* Model of providers/francetv/francetv.go: the catalog stream producer    *)
(* (FranceTV.Shows), the detail resolver (FranceTV.GetShowInfo) and its    *)
(* wrapper (FranceTV.GetShowStreamURL).                                    *)
(*                                                                         *)
(* Free-text fields (Titre, Soustitre) are sequences of one-character      *)
(* strings so that strings.TrimSpace is computed; identifiers and URLs are *)
(* opaque strings that the code only compares with "".                     *)
(***************************************************************************)
EXTENDS Integers, Sequences, FiniteSets, TLC

\* ---------------------------------------------------------------- bounds
\* longest catalog body returned by the transport getter
MaxCatalog == 2
\* longest rendition list in a detail payload
MaxVideos == 2

\* ------------------------------------------------------------- constants
ProviderName == "francetv"
TargetFormat == "hls_v5_os"

\* ------------------------------------------------------- input universes
\* raw catalog entries the listing endpoint can return (pluzzList entries)
RawEntries ==
  { [IDDiffusion |-> "id1", Titre |-> <<" ", "a", " ">>, Soustitre |-> <<"t", " ">>,
     Saison |-> "2", Episode |-> "5", ImageLarge |-> "large1",
     TsDiffusionUtc |-> [year |-> 2023, month |-> 5, day |-> 1]],
    [IDDiffusion |-> "", Titre |-> <<"b">>, Soustitre |-> <<>>,
     Saison |-> "", Episode |-> "", ImageLarge |-> "",
     TsDiffusionUtc |-> [year |-> 2019, month |-> 12, day |-> 31]] }

SeqsUpTo(S, n) == UNION { [1..k -> S] : k \in 0..n }

\* a catalog body: the entries it carries, whether it decodes, and how many
\* entries the decoder has stored in the list when it reports its error
\* (the producer's r adds whether the reader is open)
Bodies ==
  { [emissions |-> es, ok |-> ok, populated |-> p] :
      es \in SeqsUpTo(RawEntries, MaxCatalog), ok \in BOOLEAN, p \in 0..MaxCatalog }

ValidBody(b) == b.populated <= Len(b.emissions) /\ (b.ok => b.populated = Len(b.emissions))

\* match criteria: the series names asked for
Criteria == SUBSET { <<"a">>, <<"b">> }

\* renditions of a detail payload (infoOeuvre.Videos)
Renditions ==
  { [Format |-> TargetFormat, URL |-> "u1"],
    [Format |-> TargetFormat, URL |-> ""],
    [Format |-> "m3u8-download", URL |-> "u2"] }

\* outcome of the detail request: the transport result, the decode result and,
\* when both succeed, the decoded payload (infoOeuvre)
DetailOutcomes ==
  { [get |-> "fail", decode |-> "fail", ImageSecure |-> "", Videos |-> <<>>],
    [get |-> "ok", decode |-> "fail", ImageSecure |-> "", Videos |-> <<>>] }
  \cup [get : {"ok"}, decode : {"ok"}, ImageSecure : {"secure"},
        Videos : SeqsUpTo(Renditions, MaxVideos)]

\* ------------------------------------------------------- pure functions
RECURSIVE TrimLeft(_)
TrimLeft(s) == IF s # <<>> /\ Head(s) = " " THEN TrimLeft(Tail(s)) ELSE s

RECURSIVE TrimRight(_)
TrimRight(s) ==
  IF s # <<>> /\ s[Len(s)] = " " THEN TrimRight(SubSeq(s, 1, Len(s) - 1)) ELSE s

TrimSpace(s) == TrimRight(TrimLeft(s))

\* json.Decoder.Decode into pluzzList: the list it leaves behind and its error
Decode(b) ==
  IF b.ok THEN [list |-> b.emissions, err |-> "nil"]
  ELSE [list |-> SubSeq(b.emissions, 1, b.populated), err |-> "decode"]

\* mutant: StreamURL is filled from a field of the catalog entry
MapShowWrongField(e) ==
  [ID |-> e.IDDiffusion,
   Show |-> TrimSpace(e.Titre),
   Title |-> TrimSpace(e.Soustitre),
   Season |-> e.Saison,
   Episode |-> e.Episode,
   AirDate |-> e.TsDiffusionUtc,
   Detailed |-> FALSE,
   Provider |-> ProviderName,
   StreamURL |-> e.ImageLarge,
   ThumbnailURL |-> e.ImageLarge]

\* Map JSON object to provider.Show common structure
MapShow(e) ==
  [ID |-> e.IDDiffusion,
   Show |-> TrimSpace(e.Titre),
   Title |-> TrimSpace(e.Soustitre),
   Season |-> e.Saison,
   Episode |-> e.Episode,
   AirDate |-> e.TsDiffusionUtc,
   Detailed |-> FALSE,
   Provider |-> ProviderName,
   StreamURL |-> "",
   ThumbnailURL |-> e.ImageLarge]

\* providers.IsShowMatch: the show's series name is one of the criteria
IsShowMatch(mm, show) == \E m \in mm : m = show.Show

\* ------------------------------------------------------- detail resolver
\* mutant: the scan goes on after a match, the last match wins
RECURSIVE ScanVideosNoBreak(_, _)
ScanVideosNoBreak(videos, cur) ==
  IF videos = <<>> THEN cur
  ELSE IF Head(videos).Format = TargetFormat
       THEN ScanVideosNoBreak(Tail(videos), Head(videos).URL)
       ELSE ScanVideosNoBreak(Tail(videos), cur)

\* the scan of i.Videos: StreamURL after the loop, starting from cur
RECURSIVE ScanVideos(_, _)
ScanVideos(videos, cur) ==
  IF videos = <<>> THEN cur
  ELSE IF Head(videos).Format = TargetFormat THEN Head(videos).URL
  ELSE ScanVideos(Tail(videos), cur)

\* mutant: Detailed is set without the check of the stream URL
FetchShowInfoNoCheck(s, o) ==
  IF o.get # "ok" THEN [s |-> s, err |-> "get", gets |-> 1, open |-> 0]
  ELSE IF o.decode # "ok" THEN [s |-> s, err |-> "decode", gets |-> 1, open |-> 1]
  ELSE LET s1 == [s EXCEPT !.ThumbnailURL = o.ImageSecure]
           s2 == [s1 EXCEPT !.StreamURL = ScanVideos(o.Videos, s1.StreamURL)]
       IN [s |-> [s2 EXCEPT !.Detailed = TRUE], err |-> "nil", gets |-> 1, open |-> 1]

\* the body of GetShowInfo after its check of s.Detailed; open counts the
\* readers obtained from the getter that are not closed when it returns
FetchShowInfo(s, o) ==
  IF o.get # "ok" THEN [s |-> s, err |-> "get", gets |-> 1, open |-> 0]
  ELSE IF o.decode # "ok" THEN [s |-> s, err |-> "decode", gets |-> 1, open |-> 1]
  ELSE LET s1 == [s EXCEPT !.ThumbnailURL = o.ImageSecure]
           s2 == [s1 EXCEPT !.StreamURL = ScanVideos(o.Videos, s1.StreamURL)]
       IN IF s2.StreamURL = ""
          THEN [s |-> s2, err |-> "nostream", gets |-> 1, open |-> 1]
          ELSE [s |-> [s2 EXCEPT !.Detailed = TRUE], err |-> "nil", gets |-> 1,
                open |-> 1]

\* mutant: no early return for a Show that is already detailed
GetShowInfoNoMemo(s, o) == FetchShowInfo(s, o)

\* mutant: Detailed is set before the stream URL is checked
GetShowInfoEarlyDetailed(s, o) ==
  LET g == FetchShowInfo(s, o)
  IN IF s.Detailed THEN [s |-> s, err |-> "nil", gets |-> 0, open |-> 0]
     ELSE IF g.err = "nostream" THEN [g EXCEPT !.s.Detailed = TRUE]
     ELSE g

\* mutant: Detailed is never set
GetShowInfoNoDetailed(s, o) ==
  LET g == FetchShowInfo(s, o)
  IN IF s.Detailed THEN [s |-> s, err |-> "nil", gets |-> 0, open |-> 0]
     ELSE [g EXCEPT !.s.Detailed = FALSE]

\* mutant: the call clears Detailed and fetches again
GetShowInfoClearsFirst(s, o) == FetchShowInfo([s EXCEPT !.Detailed = FALSE], o)

\* GetShowInfo on show s when the detail request has outcome o: the show
\* afterwards, the error returned and the number of getter.Get calls made
GetShowInfo(s, o) ==
  IF s.Detailed THEN [s |-> s, err |-> "nil", gets |-> 0, open |-> 0]
  ELSE FetchShowInfo(s, o)

\* mutant: the error of GetShowInfo is dropped
GetShowStreamURLIgnoresErr(s, o) ==
  IF s.StreamURL = ""
  THEN LET g == GetShowInfo(s, o)
       IN [s |-> g.s, url |-> g.s.StreamURL, err |-> "nil", gets |-> g.gets,
           open |-> g.open]
  ELSE [s |-> s, url |-> s.StreamURL, err |-> "nil", gets |-> 0, open |-> 0]

\* GetShowStreamURL on show s: the show afterwards, the URL and error returned
GetShowStreamURL(s, o) ==
  IF s.StreamURL = ""
  THEN LET g == GetShowInfo(s, o)
       IN IF g.err # "nil"
          THEN [s |-> g.s, url |-> "", err |-> "info:" \o g.err, gets |-> g.gets,
                open |-> g.open]
          ELSE [s |-> g.s, url |-> g.s.StreamURL, err |-> "nil", gets |-> g.gets,
                open |-> g.open]
  ELSE [s |-> s, url |-> s.StreamURL, err |-> "nil", gets |-> 0, open |-> 0]

\* ----------------------------------------------------------- path builder
\* a sequence of one-character strings as one string
RECURSIVE Str(_)
Str(s) == IF s = <<>> THEN "" ELSE Head(s) \o Str(Tail(s))

\* the decimal digits of n, zero-padded to width w
RECURSIVE PadTo(_, _)
PadTo(n, w) == IF Len(ToString(n)) < w THEN "0" \o PadTo(n, w - 1) ELSE ToString(n)

\* s.AirDate.Format("2006")
FormatYear(d) == PadTo(d.year, 4)

\* s.AirDate.Format("2006-01-02")
FormatDate(d) == PadTo(d.year, 4) \o "-" \o PadTo(d.month, 2) \o "-" \o PadTo(d.day, 2)

\* the sanitizer of both cleaners: separators become "-", marks are dropped
RECURSIVE Sanitize(_)
Sanitize(s) ==
  IF s = <<>> THEN <<>>
  ELSE IF Head(s) = "/" THEN <<"-">> \o Sanitize(Tail(s))
  ELSE IF Head(s) = "?" THEN Sanitize(Tail(s))
  ELSE <<Head(s)>> \o Sanitize(Tail(s))

\* providers.PathNameCleaner
PathNameCleaner(s) == Str(Sanitize(s))

\* providers.FileNameCleaner
FileNameCleaner(s) == Str(Sanitize(s))

\* providers.Format2Digits: a number given as a string, zero-padded to 2 digits
Format2Digits(d) == IF Len(d) < 2 THEN "0" \o d ELSE d

\* filepath.Join: the non-empty elements, separated by "/"
RECURSIVE Join(_)
Join(elems) ==
  IF elems = <<>> THEN ""
  ELSE IF Head(elems) = "" THEN Join(Tail(elems))
  ELSE IF Join(Tail(elems)) = "" THEN Head(elems)
  ELSE Head(elems) \o "/" \o Join(Tail(elems))

\* mutant: the title is appended whenever it is not empty
GetShowFileNameAnyTitle(s) ==
  LET showPath == PathNameCleaner(s.Show)
      seasonPath == IF s.Season = "" THEN "Season " \o FormatYear(s.AirDate)
                    ELSE "Season " \o Format2Digits(s.Season)
      episodePath0 ==
        IF s.Episode = ""
        THEN FileNameCleaner(s.Show) \o " - " \o FormatDate(s.AirDate)
        ELSE FileNameCleaner(s.Show) \o " - s" \o Format2Digits(s.Season)
               \o "e" \o Format2Digits(s.Episode)
      episodePath ==
        IF s.Episode = "" /\ (s.Title = <<>> \/ s.Title = s.Show)
        THEN episodePath0 \o " - " \o s.ID \o ".mp4"
        ELSE IF s.Title # <<>>
             THEN episodePath0 \o " - " \o FileNameCleaner(s.Title) \o ".mp4"
             ELSE episodePath0 \o ".mp4"
  IN Join(<<showPath, seasonPath, episodePath>>)

\* GetShowFileName: ShowName/Season NN/ShowName - sNNeMM - Episode title
GetShowFileName(s) ==
  LET showPath == PathNameCleaner(s.Show)
      seasonPath == IF s.Season = "" THEN "Season " \o FormatYear(s.AirDate)
                    ELSE "Season " \o Format2Digits(s.Season)
      episodePath0 ==
        IF s.Episode = ""
        THEN FileNameCleaner(s.Show) \o " - " \o FormatDate(s.AirDate)
        ELSE FileNameCleaner(s.Show) \o " - s" \o Format2Digits(s.Season)
               \o "e" \o Format2Digits(s.Episode)
      episodePath ==
        IF s.Episode = "" /\ (s.Title = <<>> \/ s.Title = s.Show)
        THEN episodePath0 \o " - " \o s.ID \o ".mp4"
        ELSE IF s.Title # <<>> /\ s.Title # s.Show
             THEN episodePath0 \o " - " \o FileNameCleaner(s.Title) \o ".mp4"
             ELSE episodePath0 \o ".mp4"
  IN Join(<<showPath, seasonPath, episodePath>>)

\* mutant: the matcher is a pattern of the series directory only
GetShowFileNameMatcherSeries(s) == PathNameCleaner(s.Show)

\* GetShowFileNameMatcher: return p.GetShowFileName(s)
GetShowFileNameMatcher(s) == GetShowFileName(s)

\* ------------------------------------------------------------------ state
VARIABLES
  pc,        \* position of the producer goroutine of the current Shows call
  mm,        \* match criteria of the current Shows call
  r,         \* body obtained from the getter by the producer
  err,       \* the producer's err variable
  list,      \* list.Reponse.Emissions after Decode
  i,         \* index of the range loop over the list
  show,      \* the Show the producer is sending (pc = "send")
  closes,    \* number of close(shows) executed on the current channel
  sent,      \* Shows sent on the current channel, as they were when sent
  held,      \* Shows the consumer has received and holds (by reference)
  failed,    \* indices in held of the Shows a payload without the target format left unresolved
  logged,    \* messages written with log.Printf
  gets,      \* getter.Get calls of the current Shows call
  decodes,   \* Decode calls of the current Shows call
  ret        \* the GetShowInfo / GetShowStreamURL call that is returning to the caller

vars == <<pc, mm, r, err, list, i, show, closes, sent, held, failed, logged, gets, decodes, ret>>

producer == <<pc, r, err, list, i, show, closes, sent, logged, gets, decodes>>

NoEntry == [IDDiffusion |-> "", Titre |-> <<>>, Soustitre |-> <<>>,
            Saison |-> "", Episode |-> "", ImageLarge |-> "",
            TsDiffusionUtc |-> [year |-> 1, month |-> 1, day |-> 1]]

NoBody == [emissions |-> <<>>, ok |-> FALSE, populated |-> 0, open |-> FALSE]

NoOutcome == [get |-> "fail", decode |-> "fail", ImageSecure |-> "", Videos |-> <<>>]

NoCall == [op |-> "none", k |-> 0, pre |-> MapShow(NoEntry), o |-> NoOutcome,
           retry |-> FALSE, err |-> "nil", url |-> "", path |-> "", gets |-> 0,
           open |-> 0]

\* New(): a provider with its getter, no call made yet
Init ==
  /\ pc = "idle"
  /\ mm = {}
  /\ r = NoBody
  /\ err = "nil"
  /\ list = <<>>
  /\ i = 0
  /\ show = MapShow(NoEntry)
  /\ closes = 0
  /\ sent = <<>>
  /\ held = <<>>
  /\ failed = {}
  /\ logged = {}
  /\ gets = 0
  /\ decodes = 0
  /\ ret = NoCall

\* ------------------------------------------------------- catalog producer
\* Shows(mm): make the channel, start the goroutine, return the channel.
\* A caller that calls again after the previous producer has ended starts
\* over with the new channel and lets go of the Shows it held.
Shows ==
  /\ pc \in {"idle", "done"}
  /\ ret.op = "none"
  /\ \E m \in Criteria : mm' = m
  /\ pc' = "get"
  /\ r' = NoBody
  /\ err' = "nil"
  /\ list' = <<>>
  /\ i' = 0
  /\ show' = MapShow(NoEntry)
  /\ closes' = 0
  /\ sent' = <<>>
  /\ held' = <<>>
  /\ failed' = {}
  /\ logged' = {}
  /\ gets' = 0
  /\ decodes' = 0
  /\ ret' = NoCall

\* mutant: the failure branch returns before the close is deferred
GetFailsNoClose ==
  /\ pc = "get"
  /\ gets' = gets + 1
  /\ err' = "get"
  /\ logged' = logged \cup {"Can't call catalog API"}
  /\ pc' = "done"
  /\ UNCHANGED <<mm, r, list, i, show, closes, sent, held, failed, decodes, ret>>

\* mutant: the failure branch logs and does not return
GetFailsNoReturn ==
  /\ pc = "get"
  /\ gets' = gets + 1
  /\ err' = "get"
  /\ logged' = logged \cup {"Can't call catalog API"}
  /\ pc' = "decode"
  /\ UNCHANGED <<mm, r, list, i, show, closes, sent, held, failed, decodes, ret>>

\* mutant: a failed request is made again
GetFailsRetry ==
  /\ pc = "get"
  /\ gets' = gets + 1
  /\ err' = "get"
  /\ logged' = logged \cup {"Can't call catalog API"}
  /\ pc' = IF gets = 0 THEN "get" ELSE "close"
  /\ UNCHANGED <<mm, r, list, i, show, closes, sent, held, failed, decodes, ret>>

\* r, err := ftv.getter.Get(url), the getter failing: log and return
GetFails ==
  /\ pc = "get"
  /\ gets' = gets + 1
  /\ err' = "get"
  /\ logged' = logged \cup {"Can't call catalog API"}
  /\ pc' = "close"
  /\ UNCHANGED <<mm, r, list, i, show, closes, sent, held, failed, decodes, ret>>

\* r, err := ftv.getter.Get(url), the getter returning a body
GetReturns ==
  /\ pc = "get"
  /\ gets' = gets + 1
  /\ \E b \in Bodies :
       /\ ValidBody(b)
       /\ r' = [emissions |-> b.emissions, ok |-> b.ok, populated |-> b.populated,
                open |-> TRUE]
  /\ pc' = "decode"
  /\ UNCHANGED <<mm, err, list, i, show, closes, sent, held, failed, logged, decodes>>
  /\ UNCHANGED ret

\* err = d.Decode(list); a failure is logged and the loop is entered anyway
DecodeCatalog ==
  /\ pc = "decode"
  /\ decodes' = decodes + 1
  /\ list' = Decode(r).list
  /\ err' = Decode(r).err
  /\ logged' = IF Decode(r).err # "nil" THEN logged \cup {"Can't decode catalog"} ELSE logged
  /\ i' = 1
  /\ pc' = "loop"
  /\ UNCHANGED <<mm, r, show, closes, sent, held, failed, gets, ret>>

\* mutant: the loop stops one entry short
LoopEndsEarly ==
  /\ pc = "loop"
  /\ i >= Len(list)
  /\ pc' = "close"
  /\ UNCHANGED <<mm, r, err, list, i, show, closes, sent, held, failed, logged, gets, decodes, ret>>

\* the range loop is over: the goroutine returns
LoopEnds ==
  /\ pc = "loop"
  /\ i > Len(list)
  /\ pc' = "close"
  /\ UNCHANGED <<mm, r, err, list, i, show, closes, sent, held, failed, logged, gets, decodes, ret>>

\* mutant: every mapped entry is sent, matching or not
ConsiderNoFilter ==
  /\ pc = "loop"
  /\ i <= Len(list)
  /\ show' = MapShow(list[i])
  /\ pc' = "send"
  /\ UNCHANGED <<mm, r, err, list, i, closes, sent, held, failed, logged, gets, decodes, ret>>

\* one iteration of the range loop up to the send: map the entry, test it
Consider ==
  /\ pc = "loop"
  /\ i <= Len(list)
  /\ show' = MapShow(list[i])
  /\ IF IsShowMatch(mm, MapShow(list[i]))
     THEN pc' = "send" /\ i' = i
     ELSE pc' = "loop" /\ i' = i + 1
  /\ UNCHANGED <<mm, r, err, list, closes, sent, held, failed, logged, gets, decodes, ret>>

\* mutant: a send that gives up when the consumer is not receiving
SendNonBlocking ==
  /\ pc = "send"
  /\ \/ sent' = Append(sent, show) /\ held' = Append(held, show)
     \/ UNCHANGED <<sent, held>>
  /\ i' = i + 1
  /\ pc' = "loop"
  /\ UNCHANGED <<mm, r, err, list, show, closes, failed, logged, gets, decodes, ret>>

\* shows <- show meeting the consumer's receive (unbuffered channel)
Send ==
  /\ pc = "send"
  /\ sent' = Append(sent, show)
  /\ held' = Append(held, show)
  /\ i' = i + 1
  /\ pc' = "loop"
  /\ UNCHANGED <<mm, r, err, list, show, closes, failed, logged, gets, decodes, ret>>

\* the goroutine ends: the deferred r.Close() when a body was obtained, then
\* the deferred close(shows)
Close ==
  /\ pc = "close"
  /\ r' = [r EXCEPT !.open = FALSE]
  /\ closes' = closes + 1
  /\ pc' = "done"
  /\ UNCHANGED <<mm, err, list, i, show, sent, held, failed, logged, gets, decodes, ret>>

\* ------------------------------------------------------ synchronous calls
PayloadOK(o) == o.get = "ok" /\ o.decode = "ok"

HasTarget(videos) == \E n \in 1..Len(videos) : videos[n].Format = TargetFormat

\* the Shows not resolved since a payload without the target format made their
\* resolution fail, after a call on held[k] that got outcome o and returned e
Resolved(f, k, e, o) ==
  IF e \in {"nostream", "info:nostream"} /\ ~HasTarget(o.Videos) THEN f \cup {k}
  ELSE IF e = "nil" THEN f \ {k}
  ELSE f

\* the caller resolves a Show it holds
CallGetShowInfo ==
  \E k \in 1..Len(held), o \in DetailOutcomes :
    LET g == GetShowInfo(held[k], o)
    IN /\ ret.op = "none"
       /\ held' = [held EXCEPT ![k] = g.s]
       /\ failed' = Resolved(failed, k, g.err, o)
       /\ ret' = [op |-> "GetShowInfo", k |-> k, pre |-> held[k], o |-> o,
                  retry |-> k \in failed, err |-> g.err, url |-> "", path |-> "",
                  gets |-> g.gets, open |-> g.open]
       /\ UNCHANGED mm
       /\ UNCHANGED producer

\* the caller asks for the stream URL of a Show it holds
CallGetShowStreamURL ==
  \E k \in 1..Len(held), o \in DetailOutcomes :
    LET g == GetShowStreamURL(held[k], o)
    IN /\ ret.op = "none"
       /\ held' = [held EXCEPT ![k] = g.s]
       /\ failed' = Resolved(failed, k, g.err, o)
       /\ ret' = [op |-> "GetShowStreamURL", k |-> k, pre |-> held[k], o |-> o,
                  retry |-> k \in failed, err |-> g.err, url |-> g.url, path |-> "",
                  gets |-> g.gets, open |-> g.open]
       /\ UNCHANGED mm
       /\ UNCHANGED producer

\* the caller has taken the returned values and goes on
Return ==
  /\ ret.op # "none"
  /\ ret' = NoCall
  /\ UNCHANGED <<mm, held, failed>>
  /\ UNCHANGED producer

Next ==
  \/ Shows
  \/ GetFails
  \/ GetReturns
  \/ DecodeCatalog
  \/ LoopEnds
  \/ Consider
  \/ Send
  \/ Close
  \/ CallGetShowInfo
  \/ CallGetShowStreamURL
  \/ Return

Spec == Init /\ [][Next]_vars

\* the producer is scheduled and the consumer keeps receiving
Fairness ==
  /\ WF_vars(GetFails \/ GetReturns)
  /\ WF_vars(DecodeCatalog)
  /\ WF_vars(LoopEnds)
  /\ WF_vars(Consider)
  /\ WF_vars(Send)
  /\ WF_vars(Close)

FairSpec == Spec /\ Fairness

\* the catalog stream alone: the producer goroutine and the consumer's receive
StreamNext ==
  \/ Shows
  \/ GetFails
  \/ GetReturns
  \/ DecodeCatalog
  \/ LoopEnds
  \/ Consider
  \/ Send
  \/ Close

StreamSpec == Init /\ [][StreamNext]_vars /\ Fairness

\* the catalog stream with a consumer that may stop receiving at any time
StallSpec == Init /\ [][StreamNext]_vars

\* --------------------------------------------- path builder on held Shows
\* catalog entries covering the cases of the naming scheme
PathEntries ==
  { [IDDiffusion |-> "id1", Titre |-> ti, Soustitre |-> so, Saison |-> sa,
     Episode |-> ep, ImageLarge |-> "large1",
     TsDiffusionUtc |-> [year |-> 2023, month |-> 5, day |-> 1]] :
      ti \in { <<>>, <<"a">>, <<"a", "/", "?">> },
      so \in { <<>>, <<"a">>, <<"a", "/", "?">>, <<"t", "?">> },
      sa \in { "", "2", "12" },
      ep \in { "", "5" } }

\* the caller holds the one Show of a catalog it has drained
PathInit ==
  \E e \in PathEntries :
    /\ pc = "done"
    /\ mm = {TrimSpace(e.Titre)}
    /\ r = [emissions |-> <<e>>, ok |-> TRUE, populated |-> 1, open |-> FALSE]
    /\ err = "nil"
    /\ list = <<e>>
    /\ i = 2
    /\ show = MapShow(e)
    /\ closes = 1
    /\ sent = <<MapShow(e)>>
    /\ held = <<MapShow(e)>>
    /\ failed = {}
    /\ logged = {}
    /\ gets = 1
    /\ decodes = 1
    /\ ret = NoCall

\* the caller asks for the file name of a Show it holds
CallGetShowFileName ==
  \E k \in 1..Len(held) :
    /\ ret.op = "none"
    /\ ret' = [NoCall EXCEPT !.op = "GetShowFileName", !.k = k, !.pre = held[k],
                             !.path = GetShowFileName(held[k])]
    /\ UNCHANGED <<mm, held, failed>>
    /\ UNCHANGED producer

\* the caller asks for the file name matcher of a Show it holds
CallGetShowFileNameMatcher ==
  \E k \in 1..Len(held) :
    /\ ret.op = "none"
    /\ ret' = [NoCall EXCEPT !.op = "GetShowFileNameMatcher", !.k = k,
                             !.pre = held[k],
                             !.path = GetShowFileNameMatcher(held[k])]
    /\ UNCHANGED <<mm, held, failed>>
    /\ UNCHANGED producer

PathNext ==
  \/ CallGetShowInfo
  \/ CallGetShowStreamURL
  \/ CallGetShowFileName
  \/ CallGetShowFileNameMatcher
  \/ Return

PathSpec == PathInit /\ [][PathNext]_vars

\* ------------------------------------------------------------ properties
\* the Shows of the entries es that match the criteria m, in the order of es
RECURSIVE Matching(_, _)
Matching(es, m) ==
  IF es = <<>> THEN <<>>
  ELSE IF IsShowMatch(m, MapShow(Head(es)))
       THEN <<MapShow(Head(es))>> \o Matching(Tail(es), m)
       ELSE Matching(Tail(es), m)

IsPrefix(s, t) == Len(s) <= Len(t) /\ SubSeq(t, 1, Len(s)) = s

\* C1: the stream is closed at most once, no Show is sent on it once it is
\* closed, and it is closed only when every decoded entry has been considered
\* or the fetch or the decode has failed.
C1_ClosedOnceAfterAll ==
  [][ /\ closes' <= 1
      /\ (sent' # sent /\ sent' # <<>>) => closes = 0
      /\ (closes' = closes + 1) => (err # "nil" \/ (decodes = 1 /\ i > Len(list)))
    ]_vars

C1_Witness == closes = 1 /\ err = "nil" /\ Len(list) = 2 /\ Len(sent) = 2

\* C2: when the catalog is fetched and decoded, the Shows sent are at any time
\* a prefix of the matching entries of the body in catalog order, and exactly
\* those once the stream is closed (none when nothing matches).
C2_MatchingInOrder ==
  (decodes = 1 /\ err = "nil") =>
    /\ IsPrefix(sent, Matching(r.emissions, mm))
    /\ (closes = 1 => sent = Matching(r.emissions, mm))

C2_Witness ==
  /\ closes = 1 /\ err = "nil" /\ decodes = 1
  /\ Len(r.emissions) = 2 /\ Len(sent) = 1 /\ sent[1] = MapShow(r.emissions[2])

\* C3: when the getter returns and the consumer keeps receiving, every Shows
\* call eventually closes its stream.
C3_EventuallyClosed == (pc = "get") ~> (closes = 1)

C3_Witness == closes = 1 /\ pc = "done" /\ Len(sent) = 2 /\ err = "decode"

\* C4: after a failed catalog request the producer only closes: nothing has
\* been sent or received, the body is never decoded, and the failure is in the
\* log only.
C4_TransportFailure ==
  (err = "get") =>
    /\ pc \in {"close", "done"}
    /\ (pc = "done" => closes = 1)
    /\ sent = <<>> /\ held = <<>>
    /\ decodes = 0
    /\ logged = {"Can't call catalog API"}
    /\ ret = NoCall

C4_Witness == err = "get" /\ pc = "done" /\ closes = 1

\* C5: after a decode failure no Show is sent on the stream.
C5_NothingAfterDecodeFailure == (err = "decode") => sent = <<>>

\* the first rendition of videos in payload order that has the target format
FirstTarget(videos) ==
  videos[CHOOSE n \in 1..Len(videos) :
           /\ videos[n].Format = TargetFormat
           /\ \A m \in 1..(n - 1) : videos[m].Format # TargetFormat]

Resolution(s) == <<s.ThumbnailURL, s.StreamURL, s.Detailed>>

\* C6: a GetShowInfo call that returns an error leaves ThumbnailURL, StreamURL
\* and Detailed of the Show as they were before the call.
C6_NoMutationOnFailure ==
  (ret.op = "GetShowInfo" /\ ret.err # "nil") =>
    Resolution(held[ret.k]) = Resolution(ret.pre)

\* C7: GetShowInfo on a Show that is already detailed returns nil, makes no
\* request to the getter and leaves every field of the Show unchanged.
C7_IdempotentWhenDetailed ==
  (ret.op = "GetShowInfo" /\ ret.pre.Detailed) =>
    /\ ret.err = "nil"
    /\ ret.gets = 0
    /\ held[ret.k] = ret.pre

C7_Witness == ret.op = "GetShowInfo" /\ ret.pre.Detailed /\ PayloadOK(ret.o)

\* C8 as stated: when fetch and decode succeed and some rendition has the
\* target format, GetShowInfo returns nil with StreamURL the URL of the first
\* such rendition, ThumbnailURL from the payload and Detailed true; a missing
\* target format is the only other reason to fail.
C8_AnyTargetRenditionResolves ==
  (ret.op = "GetShowInfo" /\ ~ret.pre.Detailed /\ PayloadOK(ret.o)) =>
    /\ HasTarget(ret.o.Videos) =>
         /\ ret.err = "nil"
         /\ held[ret.k].StreamURL = FirstTarget(ret.o.Videos).URL
         /\ held[ret.k].ThumbnailURL = ret.o.ImageSecure
         /\ held[ret.k].Detailed
    /\ ret.err # "nil" => ~HasTarget(ret.o.Videos)

\* C8 as amended: the same when the first rendition with the target format has
\* a non-empty URL; GetShowInfo also fails when that URL is empty.
C8_FirstTargetRenditionResolves ==
  (ret.op = "GetShowInfo" /\ ~ret.pre.Detailed /\ PayloadOK(ret.o)) =>
    /\ (HasTarget(ret.o.Videos) /\ FirstTarget(ret.o.Videos).URL # "") =>
         /\ ret.err = "nil"
         /\ ret.gets = 1
         /\ held[ret.k].StreamURL = FirstTarget(ret.o.Videos).URL
         /\ held[ret.k].ThumbnailURL = ret.o.ImageSecure
         /\ held[ret.k].Detailed
    /\ ret.err # "nil" =>
         (~HasTarget(ret.o.Videos) \/ FirstTarget(ret.o.Videos).URL = "")

C8_Witness ==
  /\ ret.op = "GetShowInfo" /\ ret.err = "nil" /\ ret.gets = 1
  /\ Len(ret.o.Videos) = 2
  /\ ret.o.Videos[1].Format = TargetFormat /\ ret.o.Videos[2].Format = TargetFormat
  /\ held[ret.k].StreamURL = "u1"

\* the part of C9 about the failure itself: without a rendition of the target
\* format GetShowInfo returns an error and Detailed stays false
NoTargetFails ==
  (ret.op = "GetShowInfo" /\ ~ret.pre.Detailed /\ PayloadOK(ret.o)
     /\ ~HasTarget(ret.o.Videos)) =>
    /\ ret.err = "nostream"
    /\ ~held[ret.k].Detailed

\* C9 as stated: without a rendition of the target format GetShowInfo returns
\* an error and Detailed stays false; a later GetShowInfo on that Show makes a
\* new request and succeeds when the payload then has the target format.
C9_RetryAfterNoTarget ==
  /\ NoTargetFails
  /\ (ret.op = "GetShowInfo" /\ ret.retry) =>
       /\ ret.gets = 1
       /\ (PayloadOK(ret.o) /\ HasTarget(ret.o.Videos)) =>
            (ret.err = "nil" /\ held[ret.k].Detailed)

\* C9 as amended: the later call succeeds when the first rendition with the
\* target format has a non-empty URL.
C9_RetryAfterNoTargetWithURL ==
  /\ NoTargetFails
  /\ (ret.op = "GetShowInfo" /\ ret.retry) =>
       /\ ret.gets = 1
       /\ (PayloadOK(ret.o) /\ HasTarget(ret.o.Videos)
             /\ FirstTarget(ret.o.Videos).URL # "") =>
            (ret.err = "nil" /\ held[ret.k].Detailed)

C9_Witness ==
  /\ ret.op = "GetShowInfo" /\ ret.retry /\ ret.err = "nil"
  /\ held[ret.k].Detailed /\ held[ret.k].StreamURL = "u1"

\* C10: in every state, a Show held by the caller whose StreamURL is not empty
\* is detailed.
C10_StreamURLImpliesDetailed ==
  \A k \in 1..Len(held) : held[k].StreamURL # "" => held[k].Detailed

C10_Witness ==
  /\ ret.op = "none" /\ Len(held) = 2
  /\ held[1].StreamURL # "" /\ held[2].StreamURL = ""

\* ---- later claims on the catalog stream and the resolver

\* the Shows both sequences hold at the same index
Common(s, t) == 1..(IF Len(s) <= Len(t) THEN Len(s) ELSE Len(t))

\* C11: every Show is sent with Detailed false and StreamURL empty, and the
\* two fields of a Show the caller holds change only in a step that is a
\* GetShowInfo or GetShowStreamURL call.
C11_EmittedUnresolved ==
  [][ /\ \A k \in 1..Len(sent') : ~sent'[k].Detailed /\ sent'[k].StreamURL = ""
      /\ Len(held') = Len(held) + 1 =>
           (~held'[Len(held')].Detailed /\ held'[Len(held')].StreamURL = "")
      /\ \A k \in Common(held, held') :
           (held'[k].Detailed # held[k].Detailed
              \/ held'[k].StreamURL # held[k].StreamURL) =>
             (ret.op = "none" /\ ret'.op \in {"GetShowInfo", "GetShowStreamURL"}
                /\ ret'.k = k)
    ]_vars

C11_Witness ==
  /\ Len(sent) = 2 /\ held[1].Detailed /\ held[1].StreamURL = "u1"
  /\ ~sent[1].Detailed /\ sent[1].StreamURL = ""

\* C12: no Show with an empty ID is sent on the stream.
C12_EmittedIDNotEmpty == \A k \in 1..Len(sent) : sent[k].ID # ""

\* C13: Detailed of a Show the caller holds never goes from true to false, in
\* any step.
C13_DetailedMonotonic ==
  [][ \A k \in Common(held, held') : held[k].Detailed => held'[k].Detailed ]_vars

C13_Witness ==
  /\ ret.op = "GetShowInfo" /\ ret.pre.Detailed /\ ~PayloadOK(ret.o)
  /\ held[ret.k].Detailed

\* C14: GetShowStreamURL returns a StreamURL that is already set without any
\* request; otherwise it resolves with one request and returns the non-empty
\* URL it stored and nil, or "" and an error; never "" with nil.
C14_GetShowStreamURL ==
  (ret.op = "GetShowStreamURL") =>
    /\ ret.pre.StreamURL # "" =>
         /\ ret.url = ret.pre.StreamURL /\ ret.err = "nil" /\ ret.gets = 0
         /\ held[ret.k] = ret.pre
    /\ ret.pre.StreamURL = "" =>
         /\ ret.gets = 1
         /\ held[ret.k] = GetShowInfo(ret.pre, ret.o).s
         /\ GetShowInfo(ret.pre, ret.o).err = "nil" =>
              (ret.err = "nil" /\ ret.url # "" /\ ret.url = held[ret.k].StreamURL)
         /\ GetShowInfo(ret.pre, ret.o).err # "nil" =>
              (ret.err # "nil" /\ ret.url = "")
    /\ ~(ret.url = "" /\ ret.err = "nil")

C14_Witness ==
  /\ ret.op = "GetShowStreamURL" /\ ret.pre.StreamURL = ""
  /\ ret.err = "nil" /\ ret.url = "u1" /\ ret.gets = 1

\* the Shows the producer has mapped and found matching so far
Produced ==
  IF pc \in {"idle", "get", "decode"} THEN <<>>
  ELSE Matching(SubSeq(list, 1, IF pc = "send" THEN i ELSE i - 1), mm)

\* C17: a producer that is sending leaves the send only by handing the Show
\* to the consumer; until then it does not end and the stream is not closed;
\* it is never more than one Show ahead of what the consumer has received.
C17_BlockedUntilReceived ==
  [][ /\ pc = "send" =>
           \/ (pc' = "send" /\ sent' = sent /\ closes' = 0 /\ i' = i)
           \/ (pc' = "loop" /\ sent' = Append(sent, show) /\ closes' = 0)
      /\ pc' = "send" => (closes' = 0 /\ Len(Produced') = Len(sent') + 1)
      /\ pc' # "send" => Len(Produced') = Len(sent')
    ]_vars

C17_Witness == pc = "send" /\ Len(sent) = 1 /\ Len(list) = 2

\* C18: a Shows call makes exactly one request and at most one decode, and a
\* Show is sent only after the request has returned and the decode is done.
C18_OneFetchOneDecode ==
  /\ gets <= 1 /\ decodes <= 1
  /\ pc \in {"idle", "get"} <=> gets = 0
  /\ pc \in {"idle", "get", "decode"} => (decodes = 0 /\ sent = <<>>)
  /\ (pc = "send" \/ sent # <<>>) => (gets = 1 /\ decodes = 1)
  /\ pc \in {"loop", "send"} => decodes = 1

C18_Witness == pc = "done" /\ gets = 1 /\ decodes = 1 /\ Len(sent) = 2

\* C19: a Show the caller holds is detailed exactly when its StreamURL is not
\* empty.
C19_DetailedIffStreamURL ==
  \A k \in 1..Len(held) : held[k].Detailed <=> held[k].StreamURL # ""

C19_Witness ==
  /\ ret.op = "GetShowStreamURL" /\ ret.err = "nil" /\ ~ret.pre.Detailed
  /\ held[ret.k].Detailed /\ held[ret.k].StreamURL # ""

\* C20: no reader obtained from the getter is open once the producer has
\* ended, nor when GetShowInfo (alone or under GetShowStreamURL) returns.
C20_ReadersClosed ==
  /\ pc = "done" => ~r.open
  /\ ret.op \in {"GetShowInfo", "GetShowStreamURL"} => ret.open = 0

\* ---- claims on the path builder
\* the three suffix cases of the naming scheme
SuffixIsID(s) == s.Episode = "" /\ (s.Title = <<>> \/ s.Title = s.Show)

SuffixIsTitle(s) == s.Title # <<>> /\ s.Title # s.Show

SuffixIsNone(s) == s.Episode # "" /\ (s.Title = <<>> \/ s.Title = s.Show)

SeasonSegment(s) ==
  CASE s.Season = "" -> "Season " \o FormatYear(s.AirDate)
    [] s.Season # "" -> "Season " \o Format2Digits(s.Season)

FileBase(s) ==
  CASE s.Episode = "" -> FileNameCleaner(s.Show) \o " - " \o FormatDate(s.AirDate)
    [] s.Episode # "" -> FileNameCleaner(s.Show) \o " - s" \o Format2Digits(s.Season)
                           \o "e" \o Format2Digits(s.Episode)

Suffix(s) ==
  CASE SuffixIsID(s) -> " - " \o s.ID \o ".mp4"
    [] SuffixIsTitle(s) -> " - " \o FileNameCleaner(s.Title) \o ".mp4"
    [] SuffixIsNone(s) -> ".mp4"

\* C15: GetShowFileName is the series directory, the season segment and the
\* file base with its suffix as the decision table gives them, and exactly
\* one of the three suffix cases applies.
C15_DecisionTable ==
  (ret.op = "GetShowFileName") =>
    /\ ret.path =
         Join(<<PathNameCleaner(ret.pre.Show), SeasonSegment(ret.pre),
                FileBase(ret.pre) \o Suffix(ret.pre)>>)
    /\ Cardinality({c \in {"id", "title", "none"} :
                      \/ c = "id" /\ SuffixIsID(ret.pre)
                      \/ c = "title" /\ SuffixIsTitle(ret.pre)
                      \/ c = "none" /\ SuffixIsNone(ret.pre)}) = 1

C15_Witness ==
  /\ ret.op = "GetShowFileName"
  /\ ret.pre.Episode = "5" /\ ret.pre.Season = "2" /\ ret.pre.Title = ret.pre.Show
  /\ ret.path = "a-/Season 02/a- - s02e05.mp4"

====
